---- MODULE Spec2Model ----
(***************************************************************************)
(* Star structure (TOV) solver and star families.                          *)
(*                                                                         *)
(* Numbers.  Pressure, density and enclosed mass are held in fixed point,  *)
(* Scale units to one; the radial coordinate is a whole number of grid     *)
(* units.  A value outside -FloatMax..FloatMax is non-finite (inf or nan), *)
(* and a division by zero is non-finite too.                               *)
(*                                                                         *)
(* scipy's solve_ivp is a library: it is modelled as an explicit one-step  *)
(* integrator that advances by StepSize (clipped to r_end), looks for a    *)
(* sign change of the terminal event function over each step, localizes    *)
(* the event inside the step, and reports status -1, 0 or 1 as scipy does. *)
(***************************************************************************)
EXTENDS Integers, Sequences, FiniteSets, TLC

VARIABLES
    variant,            \* the program run: "tov": a StarFamily; "tidal": a DeformedStarFamily;
                        \* "analysis", "family_analysis": app_quark_eos_analysis;
                        \* "threads": concurrent callers; "eos": an EOS class
    pc,                 \* position of the program
    p_center_space,     \* StarFamily.p_center_space
    p_surface,          \* surface pressure given to the constructor
    star,               \* StarFamily.star_object, a Star
    ode,                \* the running / returned solve_ivp solution
    r_end,              \* r_end of the sweep in progress
    k,                  \* loop index of the sweep (1-based)
    radius_array,       \* StarFamily.radius_array
    mass_array,         \* StarFamily.mass_array
    call,               \* how the last call on the family ended, as its caller sees it
    solved,             \* p_center of every star solve started in this sweep, in order
    sweeps,             \* number of sweeps started
    bar,                \* the count of the progress bar of the sweep (alive_bar)
    rho_center_space,   \* DeformedStarFamily.rho_center_space
    k2_array,           \* DeformedStarFamily.k2_array
    maximum_k2_star_rho_center,     \* DeformedStarFamily.maximum_k2_star_rho_center
    maximum_k2,         \* DeformedStarFamily.maximum_k2
    app,                \* analyze_strange_stars: the dataframe, the worker pool and its results;
                        \* analyze_strange_star_family: the row, the family and the searches called
    threads,            \* callers that use one family object at the same time
    eos                 \* an equation of state under construction or evaluation

tov_vars == <<variant, pc, p_center_space, p_surface, star, ode, r_end, k,
              radius_array, mass_array, call, solved, sweeps, bar>>

k2_vars == <<rho_center_space, k2_array, maximum_k2_star_rho_center, maximum_k2>>

ext_vars == <<app, threads, eos>>

vars == <<tov_vars, k2_vars, ext_vars>>

----------------------------------------------------------------------------
\* Bounds of the model

MaxStars == 2
MaxPCenter == 3
MaxPSurface == 1
MaxREnd == 4
MaxSweeps == 2
MaxK2 == 1
MaxRows == 21
MaxProcesses == 2
MaxQuery == 8
MaxB == 1
MaxA4 == 2
MaxTableRows == 2
MaxRhoCenter == 2
FloatMax == 32767
Scale == 1000
StepSize == 2

\* Program constants

FourPi == 13
RBegin == 1
PolyK == 100
ChunkFactor == 10
FourPiSquared == 39

\* np.inf: beyond every finite number
Inf == FloatMax + 1

----------------------------------------------------------------------------
\* Arithmetic

NoException == [type |-> "none", message |-> ""]

\* the parts of the state a run does not use
Unused == [pc |-> "unused"]

Abs(x) == IF x < 0 THEN -x ELSE x

FloorDiv(a, b) == IF b > 0 THEN a \div b ELSE (-a) \div (-b)

ISqrt(n) == CHOOSE i \in 0..n : i * i <= n /\ (i + 1) * (i + 1) > n

Finite(x) == -FloatMax <= x /\ x <= FloatMax

Zeros(n) == [i \in 1..n |-> 0]

----------------------------------------------------------------------------
\* Equation of state: PolytropicEOS(k, n = 1), rho = |p / k| ** (1 / 2)

PolytropicRho_Signed(p) ==
    IF p < 0 THEN 0 - ISqrt(((0 - p) * Scale) \div PolyK) ELSE ISqrt((p * Scale) \div PolyK)

PolytropicRho(p) == ISqrt((Abs(p) * Scale) \div PolyK)

\* PolytropicEOS.p: k * rho ** m, with m = 2
PolytropicP(rho) == (PolyK * rho * rho) \div Scale

\* a float that is a number, and the float that is none (nan, or the complex
\* value Python gives for the square root of a negative float)
Real(v) == [nan |-> FALSE, value |-> v]

NaN == [nan |-> TRUE, value |-> 0]

\* x ** (1 / 2)
SquareRoot(x) == IF x < 0 THEN NaN ELSE Real(ISqrt(x))

\* QuarkEOS: the coefficient (3 * a2**2) / (4 * pi**2 * a4)
QuarkCoefficient(e) == (3 * e.a2 * e.a2) \div (FourPiSquared * e.a4)

\* QuarkEOS.rho; the coefficient is carried under the square root:
\* c * (1 + (1 + (4 / c) * (p + B)) ** (1/2)) = c + (c**2 + 4 * c * (p + B)) ** (1/2)
QuarkRho(e, p) ==
    LET c    == QuarkCoefficient(e)
        root == SquareRoot(c * c + 4 * c * (p + e.B))
    IN  IF root.nan THEN NaN ELSE Real(3 * p + 4 * e.B + c + root.value)

\* QuarkEOS.p, in the same way:
\* (c / 9) * (1 + (1 + (12 / c) * (rho - B)) ** (1/2)) = (c + (c**2 + 12 * c * (rho - B)) ** (1/2)) / 9
QuarkP_BagOnce(e, rho) ==
    LET c    == QuarkCoefficient(e)
        root == SquareRoot(c * c + 12 * c * (rho - e.B))
    IN  IF root.nan THEN NaN ELSE Real(FloorDiv(3 * (rho - e.B) - c - root.value, 9))

QuarkP(e, rho) ==
    LET c    == QuarkCoefficient(e)
        root == SquareRoot(c * c + 12 * c * (rho - e.B))
    IN  IF root.nan THEN NaN ELSE Real(FloorDiv(3 * (rho - 4 * e.B) - c - root.value, 9))

----------------------------------------------------------------------------
\* TableEOS

StrictlyIncreasing(x) == \A i \in 1..(Len(x) - 1) : x[i] < x[i + 1]

\* CubicSpline(x, y, extrapolate=False): what its construction raises, if anything
CubicSplineRaises_LengthOnly(x) ==
    IF Len(x) < 2 THEN [type |-> "ValueError", message |-> "x must contain at least 2 elements."]
    ELSE [type |-> "none", message |-> ""]

CubicSplineRaises(x) ==
    IF Len(x) < 2 THEN [type |-> "ValueError", message |-> "x must contain at least 2 elements."]
    ELSE IF ~StrictlyIncreasing(x)
    THEN [type |-> "ValueError", message |-> "x must be strictly increasing sequence."]
    ELSE NoException

\* the interpolant of extrapolate=False at v: nan outside the knots; between
\* two knots the interpolant is taken as the chord
SplineEval_Clamped(x, y, v) ==
    IF v <= x[1] THEN Real(y[1])
    ELSE IF v >= x[Len(x)] THEN Real(y[Len(x)])
    ELSE LET i == CHOOSE j \in 1..(Len(x) - 1) : x[j] <= v /\ v <= x[j + 1]
         IN  Real(y[i] + FloorDiv((y[i + 1] - y[i]) * (v - x[i]), x[i + 1] - x[i]))

SplineEval(x, y, v) ==
    IF v < x[1] \/ v > x[Len(x)] THEN NaN
    ELSE LET i == CHOOSE j \in 1..(Len(x) - 1) : x[j] <= v /\ v <= x[j + 1]
         IN  Real(y[i] + FloorDiv((y[i + 1] - y[i]) * (v - x[i]), x[i + 1] - x[i]))

\* dat_to_array(fname, usecols=(0, 1), unit_conversion=...): the two columns
\* of the file; a table is given in the units the conversion produces (each
\* column is multiplied by a positive factor, which keeps its order)
DatToArray(table) ==
    [rho |-> [i \in 1..Len(table) |-> table[i][1]],
     p   |-> [i \in 1..Len(table) |-> table[i][2]]]

\* rho[-1], p[-1]
LastOf_First(column) == column[1]

LastOf(column) == column[Len(column)]

\* TableEOS.__init__: what it raises, if anything
TableEOSRaises(table) ==
    IF CubicSplineRaises(DatToArray(table).p) # NoException
    THEN CubicSplineRaises(DatToArray(table).p)
    ELSE CubicSplineRaises(DatToArray(table).rho)

\* TableEOS.__init__: the object, when nothing is raised
TableEOSInit(table) ==
    [kind        |-> "table",
     rho_column  |-> DatToArray(table).rho,
     p_column    |-> DatToArray(table).p,
     rho_center  |-> LastOf(DatToArray(table).rho),
     p_center    |-> LastOf(DatToArray(table).p),
     rho_surface |-> DatToArray(table).rho[1],
     p_surface   |-> DatToArray(table).p[1]]

\* TableEOS.rho and TableEOS.p
TableRho(e, p) == SplineEval(e.p_column, e.rho_column, p)

TableP(e, rho) == SplineEval(e.rho_column, e.p_column, rho)

\* rho(p) and p(rho) of an EOS object
EosRho(e, p) ==
    IF e.kind = "polytropic" THEN Real(PolytropicRho(p))
    ELSE IF e.kind = "quark" THEN QuarkRho(e, p)
    ELSE TableRho(e, p)

EosP(e, rho) ==
    IF e.kind = "polytropic" THEN Real(PolytropicP(rho))
    ELSE IF e.kind = "quark" THEN QuarkP(e, rho)
    ELSE TableP(e, rho)

----------------------------------------------------------------------------
\* Star

\* Star.__init__
StarInit(p_center, p_surf) ==
    [ p_0         |-> p_center,
      m_0         |-> 0,
      rho_0       |-> PolytropicRho(p_center),
      p_surface   |-> p_surf,
      star_radius |-> 0,
      star_mass   |-> 0,
      spline      |-> << >> ]

\* Star._ode_system: the right-hand side, or non-finite
OdeSystem(r, p, m) ==
    LET rho  == PolytropicRho(p)
        r2   == r * r
        r3   == r2 * r
        a    == FourPi * r3
        b    == a * p
        c    == m + b
        num  == (rho + p) * c
        d1   == Scale * r - 2 * m
        den  == r * d1
        e    == FourPi * r2
        dm   == e * rho
    IN  IF ~Finite(r2) \/ ~Finite(r3) \/ ~Finite(a) THEN [finite |-> FALSE, dp_dr |-> 0, dm_dr |-> 0]
        ELSE IF ~Finite(b) \/ ~Finite(c) THEN [finite |-> FALSE, dp_dr |-> 0, dm_dr |-> 0]
        ELSE IF ~Finite(num) \/ ~Finite(d1) THEN [finite |-> FALSE, dp_dr |-> 0, dm_dr |-> 0]
        ELSE IF ~Finite(den) \/ den = 0 THEN [finite |-> FALSE, dp_dr |-> 0, dm_dr |-> 0]
        ELSE IF ~Finite(e) \/ ~Finite(dm) THEN [finite |-> FALSE, dp_dr |-> 0, dm_dr |-> 0]
        ELSE [finite |-> TRUE, dp_dr |-> FloorDiv(-num, den), dm_dr |-> dm]

\* Star._ode_termination_event
OdeTerminationEvent(p, p_surf) == p - p_surf

----------------------------------------------------------------------------
\* solve_ivp

StepFailureMessage == "Required step size is less than spacing between numbers."
EventMessage == "A termination event occurred."
FinishedMessage == "The solver successfully reached the end of the integration interval."

\* The solution object at the start of the integration
SolveIvpStart_FromLastSolve(p0, m0) ==
    [ r |-> RBegin, p |-> p0, m |-> star.star_mass,
      done |-> FALSE, status |-> 0, message |-> "",
      t_event |-> 0, p_event |-> 0, m_event |-> 0,
      t |-> << <<RBegin, p0, star.star_mass>> >> ]

SolveIvpStart(p0, m0) ==
    [ r |-> RBegin, p |-> p0, m |-> m0,
      done |-> FALSE, status |-> 0, message |-> "",
      t_event |-> 0, p_event |-> 0, m_event |-> 0,
      t |-> << <<RBegin, p0, m0>> >> ]

\* Linear localization of the event inside a step
Localize(a, an, num, den) == IF den = 0 THEN a ELSE a + FloorDiv((an - a) * num, den)

\* One step of the method, with the event handling that follows it
RK45Step(o, p_surf, rend) ==
    LET f     == OdeSystem(o.r, o.p, o.m)
        h     == IF rend - o.r < StepSize THEN rend - o.r ELSE StepSize
        rn    == o.r + h
        pn    == o.p + h * f.dp_dr
        mn    == o.m + h * f.dm_dr
        g     == OdeTerminationEvent(o.p, p_surf)
        gn    == OdeTerminationEvent(pn, p_surf)
        event == (g <= 0 /\ gn >= 0) \/ (g >= 0 /\ gn <= 0)
        te    == Localize(o.r, rn, g, o.p - pn)
        pe    == Localize(o.p, pn, g, o.p - pn)
        me    == Localize(o.m, mn, g, o.p - pn)
    IN  IF ~f.finite \/ ~Finite(pn) \/ ~Finite(mn)
        THEN [o EXCEPT !.done = TRUE, !.status = -1, !.message = StepFailureMessage]
        ELSE IF event
        THEN [o EXCEPT !.r = rn, !.p = pn, !.m = mn,
                       !.done = TRUE, !.status = 1, !.message = EventMessage,
                       !.t_event = te, !.p_event = pe, !.m_event = me,
                       !.t = Append(o.t, <<te, pe, me>>)]
        ELSE IF rn >= rend
        THEN [o EXCEPT !.r = rn, !.p = pn, !.m = mn,
                       !.done = TRUE, !.status = 0, !.message = FinishedMessage,
                       !.t = Append(o.t, <<rn, pn, mn>>)]
        ELSE [o EXCEPT !.r = rn, !.p = pn, !.m = mn,
                       !.t = Append(o.t, <<rn, pn, mn>>)]

\* a failure of the step reported as the end of the interval
SolveIvpStep_FailureAsFinished(o, p_surf, rend) ==
    LET n == RK45Step(o, p_surf, rend)
    IN  IF n.status = -1 THEN [n EXCEPT !.status = 0, !.message = FinishedMessage] ELSE n

\* solve_ivp(..., method='RK45', events=[...]): one pass of its loop
SolveIvpStep(o, p_surf, rend) == RK45Step(o, p_surf, rend)

\* solve_ivp run to its end
RECURSIVE SolveIvp(_, _, _)
SolveIvp(o, p_surf, rend) ==
    IF o.done THEN o ELSE SolveIvp(SolveIvpStep(o, p_surf, rend), p_surf, rend)

----------------------------------------------------------------------------
\* Star.solve_tov, after solve_ivp has returned

\* the exception Star.solve_tov raises for the solution o, if any
SolveTovRaises_FixedMessage(o) ==
    IF o.status = -1 THEN [type |-> "Exception", message |-> "The solver failed"]
    ELSE IF o.status = 0
    THEN [type |-> "Exception", message |-> "The solver did not find the ODE termination event"]
    ELSE [type |-> "none", message |-> ""]

SolveTovRaises(o) ==
    IF o.status = -1 THEN [type |-> "Exception", message |-> o.message]
    ELSE IF o.status = 0
    THEN [type |-> "Exception", message |-> "The solver did not find the ODE termination event"]
    ELSE NoException

\* the star after a solve that did not raise
SolveTovStore_LastStep(s, o) ==
    [s EXCEPT !.star_radius = o.r,
              !.star_mass   = o.m,
              !.spline      = o.t]

SolveTovStore(s, o) ==
    [s EXCEPT !.star_radius = o.t_event,
              !.star_mass   = o.m_event,
              !.spline      = o.t]

\* the star after a solve that raised: the raise comes before every assignment
SolveTovOnRaise_StoreLastStep(s, o) ==
    [s EXCEPT !.star_radius = o.r,
              !.star_mass   = o.m,
              !.spline      = o.t]

SolveTovOnRaise(s, o) == s

\* the call solve_tov(p_center, ...) of the family: the star takes the central
\* pressure of the call, then integrates from its center values
StarSetCenter(s, p_center) ==
    [s EXCEPT !.p_0 = p_center, !.m_0 = 0, !.rho_0 = PolytropicRho(p_center)]

----------------------------------------------------------------------------
\* StarFamily

Size == Len(p_center_space)

REnds == ((MaxREnd - 1)..MaxREnd) \cup {Inf}

NoSolution == SolveIvpStart(0, 0)

NoCall == [op |-> "none", outcome |-> "none", exception |-> NoException, value |-> 0]

Returned(op, v) == [op |-> op, outcome |-> "returned", exception |-> NoException, value |-> v]

Raised(op, e) == [op |-> op, outcome |-> "raised", exception |-> e, value |-> 0]

Running(op) == [op |-> op, outcome |-> "running", exception |-> NoException, value |-> 0]

IndexError == [type |-> "IndexError", message |-> "index 0 is out of bounds for axis 0 with size 0"]

InitTov ==
    /\ app = Unused
    /\ threads = Unused
    /\ eos = Unused
    /\ variant = "tov"
    /\ pc = "new"
    /\ p_center_space \in UNION {[1..n -> 0..MaxPCenter] : n \in 0..MaxStars}
    /\ p_surface \in 0..MaxPSurface
    /\ star = StarInit(0, 0)
    /\ ode = NoSolution
    /\ r_end = Inf
    /\ k = 0
    /\ radius_array = << >>
    /\ mass_array = << >>
    /\ call = NoCall
    /\ solved = << >>
    /\ sweeps = 0
    /\ bar = 0
    /\ rho_center_space = << >>
    /\ k2_array = << >>
    /\ maximum_k2_star_rho_center = 0
    /\ maximum_k2 = 0

\* StarFamily.__init__
StarFamilyInit ==
    /\ pc = "new"
    /\ variant = "tov"
    /\ IF Size = 0
       THEN /\ pc' = "crashed"
            /\ call' = Raised("StarFamily", IndexError)
            /\ UNCHANGED star
       ELSE /\ pc' = "idle"
            /\ star' = StarInit(p_center_space[1], p_surface)
            /\ call' = Returned("StarFamily", 0)
    /\ UNCHANGED <<variant, bar, p_center_space, p_surface, ode, r_end, k,
                   radius_array, mass_array, solved, sweeps, k2_vars>>
    /\ UNCHANGED ext_vars

\* np.zeros(self.p_center_space.size)
NewArray_Ones(n) == [i \in 1..n |-> 1]

NewArray_KeepOld(n) == IF Len(radius_array) = n THEN radius_array ELSE Zeros(n)

NewArray(n) == Zeros(n)

\* StarFamily.solve_tov up to the loop
SolveTovBegin(rend) ==
    /\ pc = "idle"
    /\ variant = "tov"
    /\ sweeps < MaxSweeps
    /\ sweeps' = sweeps + 1
    /\ r_end' = rend
    /\ radius_array' = NewArray(Size)
    /\ mass_array' = NewArray(Size)
    /\ k' = 1
    /\ solved' = << >>
    /\ ode' = NoSolution
    /\ pc' = "loop"
    /\ call' = Running("solve_tov")
    /\ bar' = 0
    /\ UNCHANGED <<variant, p_center_space, p_surface, star, k2_vars>>
    /\ UNCHANGED ext_vars

\* the first argument of the loop's call: self.p_center_space[k]
LoopPCenter_First(i) == p_center_space[1]

LoopPCenter(i) == p_center_space[i]

\* the loop head: the next star's solve_tov is called, or the sweep returns
SolveTovLoop ==
    /\ pc = "loop"
    /\ variant = "tov"
    /\ IF k <= Size
       THEN /\ star' = StarSetCenter(star, LoopPCenter(k))
            /\ ode' = SolveIvpStart(star'.p_0, star'.m_0)
            /\ solved' = Append(solved, star'.p_0)
            /\ pc' = "integrating"
            /\ UNCHANGED call
       ELSE /\ pc' = "idle"
            /\ call' = Returned("solve_tov", 0)
            /\ UNCHANGED <<star, ode, solved>>
    /\ UNCHANGED <<variant, bar, p_center_space, p_surface, r_end, k,
                   radius_array, mass_array, sweeps, k2_vars>>
    /\ UNCHANGED ext_vars

\* one step of solve_ivp inside Star.solve_tov
OdeStep ==
    /\ pc = "integrating"
    /\ ode' = SolveIvpStep(ode, star.p_surface, r_end)
    /\ pc' = IF ode'.done THEN "ivp_done" ELSE "integrating"
    /\ UNCHANGED <<variant, bar, p_center_space, p_surface, star, r_end, k,
                   radius_array, mass_array, call, solved, sweeps, k2_vars>>
    /\ UNCHANGED ext_vars

\* what the loop does with an exception of the star's solve: there is no
\* handler, the exception leaves the sweep
LoopOnException_Skip(op, e) == [pc |-> "loop", k |-> k + 1, call |-> Running(op)]

LoopOnException(op, e) == [pc |-> "idle", k |-> k, call |-> Raised(op, e)]

\* self.radius_array[k] = ..., self.mass_array[k] = ...
StoreAt_Reversed(array, i, v) == [j \in 1..Len(array) |-> IF j = Len(array) - i + 1 THEN v ELSE array[j]]

StoreAt(array, i, v) == [array EXCEPT ![i] = v]

\* bar(): the progress bar of the sweep advances by one
BarTick_Twice(n) == n + 2

BarTick(n) == n + 1

\* Star.solve_tov after solve_ivp, and the rest of the loop body
SolveTovEnd ==
    /\ pc = "ivp_done"
    /\ variant = "tov"
    /\ IF SolveTovRaises(ode) # NoException
       THEN /\ pc' = LoopOnException("solve_tov", SolveTovRaises(ode)).pc
            /\ k' = LoopOnException("solve_tov", SolveTovRaises(ode)).k
            /\ call' = LoopOnException("solve_tov", SolveTovRaises(ode)).call
            /\ star' = SolveTovOnRaise(star, ode)
            /\ UNCHANGED <<radius_array, mass_array, bar>>
       ELSE /\ star' = SolveTovStore(star, ode)
            /\ radius_array' = StoreAt(radius_array, k, star'.star_radius)
            /\ mass_array' = StoreAt(mass_array, k, star'.star_mass)
            /\ bar' = BarTick(bar)
            /\ k' = k + 1
            /\ pc' = "loop"
            /\ UNCHANGED call
    /\ UNCHANGED <<variant, p_center_space, p_surface, ode, r_end, solved, sweeps, k2_vars>>
    /\ UNCHANGED ext_vars

----------------------------------------------------------------------------
\* DeformedStarFamily

\* The family is given an increasing p_center_space, so that rho_center_space
\* is strictly increasing, as CubicSpline requires of its abscissas.
Increasing(S) == CHOOSE f \in [1..Cardinality(S) -> S] : \A i, j \in 1..Cardinality(S) : i < j => f[i] < f[j]

\* StarFamily.MAX_RHO of the parent class: a density above every sampled one
MAX_RHO == FloatMax

InitTidal ==
    /\ app = Unused
    /\ threads = Unused
    /\ eos = Unused
    /\ variant = "tidal"
    /\ pc = "new"
    /\ p_center_space \in {Increasing(S) : S \in SUBSET (0..MaxPCenter)}
    /\ p_surface \in 0..MaxPSurface
    /\ star = StarInit(0, 0)
    /\ ode = NoSolution
    /\ r_end \in REnds
    /\ k = 0
    /\ radius_array = << >>
    /\ mass_array = << >>
    /\ call = NoCall
    /\ solved = << >>
    /\ sweeps = 0
    /\ bar = 0
    /\ rho_center_space = << >>
    /\ k2_array = << >>
    /\ maximum_k2_star_rho_center = 0
    /\ maximum_k2 = 0

\* the parent's __init__, as far as the family's arrays go
ParentInit(space) ==
    [ rho_center_space |-> [i \in 1..Len(space) |-> PolytropicRho(space[i])],
      radius_array     |-> Zeros(Len(space)),
      mass_array       |-> Zeros(Len(space)) ]

\* DeformedStarFamily.__init__
DeformedStarFamilyInit ==
    /\ pc = "new"
    /\ variant = "tidal"
    /\ rho_center_space' = ParentInit(p_center_space).rho_center_space
    /\ radius_array' = ParentInit(p_center_space).radius_array
    /\ mass_array' = ParentInit(p_center_space).mass_array
    /\ IF Size = 0
       THEN /\ pc' = "crashed"
            /\ call' = Raised("DeformedStarFamily", IndexError)
            /\ UNCHANGED <<star, k2_array, maximum_k2_star_rho_center, maximum_k2>>
       ELSE /\ pc' = "idle"
            /\ star' = StarInit(p_center_space[1], p_surface)
            /\ k2_array' = Zeros(Size)
            /\ maximum_k2_star_rho_center' = MAX_RHO
            /\ maximum_k2' = Inf
            /\ call' = Returned("DeformedStarFamily", 0)
    /\ UNCHANGED <<variant, bar, p_center_space, p_surface, ode, r_end, k, solved, sweeps>>
    /\ UNCHANGED ext_vars

\* DeformedStarFamily.solve_combined_tov_tidal up to the loop
SolveCombinedBegin ==
    /\ pc = "idle"
    /\ variant = "tidal"
    /\ sweeps < MaxSweeps
    /\ sweeps' = sweeps + 1
    /\ k2_array' = Zeros(Size)
    /\ k' = 1
    /\ solved' = << >>
    /\ ode' = NoSolution
    /\ pc' = "tidal_loop"
    /\ call' = Running("solve_combined_tov_tidal")
    /\ UNCHANGED <<variant, bar, p_center_space, p_surface, star, r_end, radius_array, mass_array,
                   rho_center_space, maximum_k2_star_rho_center, maximum_k2>>
    /\ UNCHANGED ext_vars

\* the exception DeformedStar.solve_combined_tov_tidal raises for the solution o, if any
DeformedStarRaises(o) ==
    IF o.status = -1 THEN [type |-> "RuntimeError", message |-> o.message]
    ELSE IF o.status = 0
    THEN [type |-> "RuntimeError", message |-> "The solver did not find the ODE termination event"]
    ELSE NoException

\* one pass of the loop body: star k is solved, its radius, mass and k2 are stored
SolveCombinedStar(k2v) ==
    /\ pc = "tidal_loop"
    /\ variant = "tidal"
    /\ k <= Size
    /\ ode' = SolveIvp(SolveIvpStart(p_center_space[k], 0), p_surface, r_end)
    /\ solved' = Append(solved, p_center_space[k])
    /\ IF DeformedStarRaises(ode') # NoException
       THEN /\ pc' = LoopOnException("solve_combined_tov_tidal", DeformedStarRaises(ode')).pc
            /\ k' = LoopOnException("solve_combined_tov_tidal", DeformedStarRaises(ode')).k
            /\ call' = LoopOnException("solve_combined_tov_tidal", DeformedStarRaises(ode')).call
            /\ star' = StarSetCenter(star, p_center_space[k])
            /\ UNCHANGED <<radius_array, mass_array, k2_array>>
       ELSE /\ star' = SolveTovStore(StarSetCenter(star, p_center_space[k]), ode')
            /\ radius_array' = StoreAt(radius_array, k, star'.star_radius)
            /\ mass_array' = StoreAt(mass_array, k, star'.star_mass)
            /\ k2_array' = StoreAt(k2_array, k, k2v)
            /\ k' = k + 1
            /\ UNCHANGED <<pc, call>>
    /\ UNCHANGED <<variant, bar, p_center_space, p_surface, r_end, sweeps,
                   rho_center_space, maximum_k2_star_rho_center, maximum_k2>>
    /\ UNCHANGED ext_vars

\* CubicSpline(x, y, extrapolate=False).derivative().roots(): the interpolant
\* is a library; its derivative's roots are taken at the knots where the
\* interpolated values turn (the slope changes sign) and at the start of every
\* section on which the interpolant is constant, in increasing order of x.
Slope(y, i) == y[i + 1] - y[i]

IsRoot(y, i) == Slope(y, i) = 0 \/ (i > 1 /\ Slope(y, i - 1) * Slope(y, i) < 0)

RECURSIVE RootsFrom(_, _, _)
RootsFrom(x, y, i) ==
    IF i >= Len(x) THEN << >>
    ELSE IF IsRoot(y, i) THEN <<x[i]>> \o RootsFrom(x, y, i + 1)
    ELSE RootsFrom(x, y, i + 1)

DerivativeRoots(x, y) == RootsFrom(x, y, 1)

\* the interpolant at a knot
SplineAt(x, y, at) == y[CHOOSE i \in 1..Len(x) : x[i] = at]

SplineValueError == [type |-> "ValueError", message |-> "x must contain at least 2 elements."]

\* dk2_drho_center_roots[0]
SelectRoot_Last(roots) == roots[Len(roots)]

SelectRoot(roots) == roots[1]

\* DeformedStarFamily._calc_maximum_k2_star: what it raises, the two attributes
\* after it, and what it returns
CalcMaximumK2Star_ResetOnNoRoot(x, y, cur_rho, cur_k2) ==
    IF Len(x) < 2
    THEN [exception |-> SplineValueError, rho |-> cur_rho, k2 |-> cur_k2, value |-> 0]
    ELSE IF Len(DerivativeRoots(x, y)) > 0
    THEN [exception |-> NoException,
          rho       |-> SelectRoot(DerivativeRoots(x, y)),
          k2        |-> SplineAt(x, y, SelectRoot(DerivativeRoots(x, y))),
          value     |-> SelectRoot(DerivativeRoots(x, y))]
    ELSE [exception |-> NoException, rho |-> MAX_RHO, k2 |-> Inf, value |-> MAX_RHO]

CalcMaximumK2Star(x, y, cur_rho, cur_k2) ==
    IF Len(x) < 2
    THEN [exception |-> SplineValueError, rho |-> cur_rho, k2 |-> cur_k2, value |-> 0]
    ELSE IF Len(DerivativeRoots(x, y)) > 0
    THEN [exception |-> NoException,
          rho       |-> SelectRoot(DerivativeRoots(x, y)),
          k2        |-> SplineAt(x, y, SelectRoot(DerivativeRoots(x, y))),
          value     |-> SelectRoot(DerivativeRoots(x, y))]
    ELSE [exception |-> NoException, rho |-> cur_rho, k2 |-> cur_k2, value |-> cur_rho]

Calc == CalcMaximumK2Star(rho_center_space, k2_array, maximum_k2_star_rho_center, maximum_k2)

\* the family after a call of op that runs _calc_maximum_k2_star and returns v
AfterCalc(op, v) ==
    /\ maximum_k2_star_rho_center' = Calc.rho
    /\ maximum_k2' = Calc.k2
    /\ call' = IF Calc.exception # NoException THEN Raised(op, Calc.exception) ELSE Returned(op, v)

\* the loop is over: solve_combined_tov_tidal shows the results if asked, and returns
SolveCombinedReturn(show_results) ==
    /\ pc = "tidal_loop"
    /\ variant = "tidal"
    /\ k > Size
    /\ pc' = "idle"
    /\ IF show_results
       THEN AfterCalc("solve_combined_tov_tidal", 0)
       ELSE /\ call' = Returned("solve_combined_tov_tidal", 0)
            /\ UNCHANGED <<maximum_k2_star_rho_center, maximum_k2>>
    /\ UNCHANGED <<variant, bar, p_center_space, p_surface, star, ode, r_end, k, radius_array,
                   mass_array, solved, sweeps, rho_center_space, k2_array>>
    /\ UNCHANGED ext_vars

\* DeformedStarFamily.print_results, called on the family
PrintResults ==
    /\ pc = "idle"
    /\ variant = "tidal"
    /\ AfterCalc("print_results", 0)
    /\ UNCHANGED <<variant, bar, pc, p_center_space, p_surface, star, ode, r_end, k, radius_array,
                   mass_array, solved, sweeps, rho_center_space, k2_array>>
    /\ UNCHANGED ext_vars

\* DeformedStarFamily._calc_maximum_k2_star, called on the family
CalcMaximumK2StarCall ==
    /\ pc = "idle"
    /\ variant = "tidal"
    /\ AfterCalc("_calc_maximum_k2_star", Calc.value)
    /\ UNCHANGED <<variant, bar, pc, p_center_space, p_surface, star, ode, r_end, k, radius_array,
                   mass_array, solved, sweeps, rho_center_space, k2_array>>
    /\ UNCHANGED ext_vars

----------------------------------------------------------------------------
\* app_quark_eos_analysis: analyze_strange_stars

\* QuarkEOS.__init__(self, B, a2, a4): the arguments are bound by position
QuarkEOSInit(B, a2, a4) == [kind |-> "quark", B |-> B, a2 |-> a2, a4 |-> a4]

\* the dataframe of n parameter points, one row per point, indexed 0..n-1
ParameterDataframe(n) ==
    [i \in 1..n |-> [index  |-> i - 1,
                     a2_1_2 |-> 1 + (i % 3),
                     a4     |-> 1 + (i % 2),
                     B_1_4  |-> 1 + (i % 5),
                     props  |-> << >>]]

\* the properties of the star family of an EOS: what the three searches of the
\* family find, a function of the EOS alone
FamilyProperties(quark_eos) == <<quark_eos.B, quark_eos.a2, quark_eos.a4>>

\* analyze_strange_star_family(dataframe_row): the index of the row and the
\* properties calculated
AnalyzeStrangeStarFamily_FirstIndex(row) ==
    [index |-> 0,
     props |-> FamilyProperties(QuarkEOSInit(row.a2_1_2 * row.a2_1_2, row.a4,
                                             row.B_1_4 * row.B_1_4 * row.B_1_4 * row.B_1_4))]

AnalyzeStrangeStarFamily(row) ==
    [index |-> row.index,
     props |-> FamilyProperties(QuarkEOSInit(row.a2_1_2 * row.a2_1_2, row.a4,
                                             row.B_1_4 * row.B_1_4 * row.B_1_4 * row.B_1_4))]

\* math.ceil(n_rows / (processes * 10))
ChunkSize(n_rows, processes) ==
    (n_rows + processes * ChunkFactor - 1) \div (processes * ChunkFactor)

NChunks(n_rows, chunksize) == (n_rows + chunksize - 1) \div chunksize

\* the rows of chunk c, in the order of rows_list
ChunkRows(rows_list, chunksize, c) ==
    SubSeq(rows_list, (c - 1) * chunksize + 1,
           IF c * chunksize < Len(rows_list) THEN c * chunksize ELSE Len(rows_list))

\* what a worker returns for a chunk
ChunkResult(rows) == [j \in 1..Len(rows) |-> AnalyzeStrangeStarFamily(rows[j])]

\* the results of the chunks 1..c chained in the order of the chunks
RECURSIVE ChainResults(_, _)
ChainResults(chunk_results, c) ==
    IF c = 0 THEN << >> ELSE ChainResults(chunk_results, c - 1) \o chunk_results[c]

\* parameter_dataframe.at[index, ...] = ..., for every result in turn
RECURSIVE UpdateDataframe(_, _, _)
UpdateDataframe(dataframe, results, j) ==
    IF j > Len(results) THEN dataframe
    ELSE UpdateDataframe(
            [i \in 1..Len(dataframe) |->
                IF dataframe[i].index = results[j].index
                THEN [dataframe[i] EXCEPT !.props = results[j].props]
                ELSE dataframe[i]],
            results, j + 1)

ChunkSizeError == [type |-> "ValueError", message |-> "chunksize must be >= 1."]

InitAnalysis ==
    /\ variant = "analysis"
    /\ pc = "unused"
    /\ p_center_space = << >>
    /\ p_surface = 0
    /\ star = StarInit(0, 0)
    /\ ode = NoSolution
    /\ r_end = Inf
    /\ k = 0
    /\ radius_array = << >>
    /\ mass_array = << >>
    /\ call = NoCall
    /\ solved = << >>
    /\ sweeps = 0
    /\ bar = 0
    /\ rho_center_space = << >>
    /\ k2_array = << >>
    /\ maximum_k2_star_rho_center = 0
    /\ maximum_k2 = 0
    /\ threads = Unused
    /\ eos = Unused
    /\ \E n \in 0..MaxRows :
        app = [pc |-> "new", dataframe |-> ParameterDataframe(n), processes |-> 0,
               chunksize |-> 0, next |-> 0, running |-> {}, done |-> {},
               chunk_results |-> << >>, overtaken |-> FALSE, exception |-> NoException]

\* analyze_strange_stars up to the call of process_map
AnalyzeBegin(processes) ==
    /\ variant = "analysis"
    /\ app.pc = "new"
    /\ LET n_rows    == Len(app.dataframe)
           chunksize == ChunkSize(n_rows, processes)
       IN  IF chunksize < 1
           THEN app' = [app EXCEPT !.pc = "raised", !.processes = processes,
                                   !.chunksize = chunksize, !.exception = ChunkSizeError]
           ELSE app' = [app EXCEPT !.pc = "mapping", !.processes = processes,
                                   !.chunksize = chunksize, !.next = 1,
                                   !.chunk_results = [c \in 1..NChunks(n_rows, chunksize) |-> << >>]]
    /\ UNCHANGED <<tov_vars, k2_vars, threads, eos>>

\* an idle worker process takes the next chunk of rows_list
WorkerTake ==
    /\ variant = "analysis"
    /\ app.pc = "mapping"
    /\ Cardinality(app.running) < app.processes
    /\ app.next <= Len(app.chunk_results)
    /\ app' = [app EXCEPT !.running = @ \cup {app.next}, !.next = @ + 1]
    /\ UNCHANGED <<tov_vars, k2_vars, threads, eos>>

\* a worker process has analyzed the rows of its chunk c and sends the results
WorkerFinish(c) ==
    /\ variant = "analysis"
    /\ app.pc = "mapping"
    /\ c \in app.running
    /\ app' = [app EXCEPT !.running = @ \ {c}, !.done = @ \cup {c},
                          !.overtaken = @ \/ (\E b \in app.running : b < c),
                          !.chunk_results[c] = ChunkResult(ChunkRows(app.dataframe, app.chunksize, c))]
    /\ UNCHANGED <<tov_vars, k2_vars, threads, eos>>

\* process_map returns the results in the order of rows_list; the dataframe is updated
AnalyzeUpdate ==
    /\ variant = "analysis"
    /\ app.pc = "mapping"
    /\ app.done = 1..Len(app.chunk_results)
    /\ app' = [app EXCEPT !.pc = "done",
                          !.dataframe = UpdateDataframe(app.dataframe,
                                ChainResults(app.chunk_results, Len(app.chunk_results)), 1)]
    /\ UNCHANGED <<tov_vars, k2_vars, threads, eos>>

NextAnalysis ==
    \/ \E processes \in 1..MaxProcesses : AnalyzeBegin(processes)
    \/ WorkerTake
    \/ \E c \in 1..MaxRows : WorkerFinish(c)
    \/ AnalyzeUpdate

SpecAnalysis == InitAnalysis /\ [][NextAnalysis]_vars

----------------------------------------------------------------------------
\* Two callers that solve a star through one family object at the same time:
\* each runs the body of the family's loop on the family's star_object

Callers == 1..2

InitThreads ==
    /\ variant = "threads"
    /\ pc = "idle"
    /\ p_center_space \in [Callers -> 0..MaxPCenter]
    /\ p_surface \in 0..MaxPSurface
    /\ star = StarInit(p_center_space[1], p_surface)
    /\ ode = NoSolution
    /\ r_end = Inf
    /\ k = 0
    /\ radius_array = << >>
    /\ mass_array = << >>
    /\ call = NoCall
    /\ solved = << >>
    /\ sweeps = 0
    /\ bar = 0
    /\ rho_center_space = << >>
    /\ k2_array = << >>
    /\ maximum_k2_star_rho_center = 0
    /\ maximum_k2 = 0
    /\ app = Unused
    /\ eos = Unused
    /\ threads = [t \in Callers |->
                    [pc |-> "start", ode_solution |-> NoSolution, exception |-> NoException,
                     radius |-> 0, mass |-> 0]]

\* self.star_object.solve_tov(self.p_center_space[k], ...) is entered
ThreadCall(t) ==
    /\ variant = "threads"
    /\ threads[t].pc = "start"
    /\ star' = StarSetCenter(star, LoopPCenter(t))
    /\ threads' = [threads EXCEPT ![t].pc = "called"]
    /\ UNCHANGED <<variant, bar, pc, p_center_space, p_surface, ode, r_end, k, radius_array,
                   mass_array, call, solved, sweeps, k2_vars, app, eos>>

\* solve_ivp runs from the center values the star object holds when it starts
ThreadIntegrate(t) ==
    /\ variant = "threads"
    /\ threads[t].pc = "called"
    /\ threads' = [threads EXCEPT
                      ![t].pc = "integrated",
                      ![t].ode_solution = SolveIvp(SolveIvpStart(star.p_0, star.m_0), star.p_surface, r_end)]
    /\ UNCHANGED <<tov_vars, k2_vars, app, eos>>

\* the status is checked; radius, mass and interpolants are stored on the star object
ThreadStore(t) ==
    /\ variant = "threads"
    /\ threads[t].pc = "integrated"
    /\ IF SolveTovRaises(threads[t].ode_solution) # NoException
       THEN /\ threads' = [threads EXCEPT ![t].pc = "raised",
                                          ![t].exception = SolveTovRaises(threads[t].ode_solution)]
            /\ UNCHANGED star
       ELSE /\ threads' = [threads EXCEPT ![t].pc = "stored"]
            /\ star' = SolveTovStore(star, threads[t].ode_solution)
    /\ UNCHANGED <<variant, bar, pc, p_center_space, p_surface, ode, r_end, k, radius_array,
                   mass_array, call, solved, sweeps, k2_vars, app, eos>>

\* ... = self.star_object.star_radius, ... = self.star_object.star_mass
ThreadRead(t) ==
    /\ variant = "threads"
    /\ threads[t].pc = "stored"
    /\ threads' = [threads EXCEPT ![t].pc = "done",
                                  ![t].radius = star.star_radius,
                                  ![t].mass = star.star_mass]
    /\ UNCHANGED <<tov_vars, k2_vars, app, eos>>

NextThreads ==
    \E t \in Callers : ThreadCall(t) \/ ThreadIntegrate(t) \/ ThreadStore(t) \/ ThreadRead(t)

SpecThreads == InitThreads /\ [][NextThreads]_vars

----------------------------------------------------------------------------
\* An equation of state is constructed, then evaluated or given to a Star

\* PolytropicEOS.__init__(k, n) with n = 1
PolytropicEOSInit == [kind |-> "polytropic", k |-> PolyK, m |-> 2]

QuarkA2s == {7, 10}

TableValues == {1, 3, 6}

Tables == UNION {[1..n -> TableValues \X TableValues] : n \in 0..MaxTableRows}

Queries == (0 - MaxQuery)..MaxQuery

EosArguments ==
    {[kind |-> "polytropic"]}
        \cup {[kind |-> "quark", B |-> b, a2 |-> a2, a4 |-> a4] :
                    b \in 0..MaxB, a2 \in QuarkA2s, a4 \in 1..MaxA4}
        \cup {[kind |-> "table", table |-> t] : t \in Tables}

InitEos ==
    /\ variant = "eos"
    /\ pc = "unused"
    /\ p_center_space = << >>
    /\ p_surface = 0
    /\ star = StarInit(0, 0)
    /\ ode = NoSolution
    /\ r_end = Inf
    /\ k = 0
    /\ radius_array = << >>
    /\ mass_array = << >>
    /\ call = NoCall
    /\ solved = << >>
    /\ sweeps = 0
    /\ bar = 0
    /\ rho_center_space = << >>
    /\ k2_array = << >>
    /\ maximum_k2_star_rho_center = 0
    /\ maximum_k2 = 0
    /\ app = Unused
    /\ threads = Unused
    /\ \E a \in EosArguments :
        eos = [pc |-> "new", arguments |-> a, object |-> Unused, exception |-> NoException,
               op |-> "none", arg |-> 0, result |-> NaN, star |-> Unused]

\* the constructor of the EOS class is called
EosConstruct ==
    /\ variant = "eos"
    /\ eos.pc = "new"
    /\ eos' =
        IF eos.arguments.kind = "polytropic"
        THEN [eos EXCEPT !.pc = "constructed", !.object = PolytropicEOSInit]
        ELSE IF eos.arguments.kind = "quark"
        THEN [eos EXCEPT !.pc = "constructed",
                         !.object = QuarkEOSInit(eos.arguments.B, eos.arguments.a2, eos.arguments.a4)]
        ELSE IF TableEOSRaises(eos.arguments.table) # NoException
        THEN [eos EXCEPT !.pc = "raised", !.exception = TableEOSRaises(eos.arguments.table)]
        ELSE [eos EXCEPT !.pc = "constructed", !.object = TableEOSInit(eos.arguments.table)]
    /\ UNCHANGED <<tov_vars, k2_vars, app, threads>>

\* eos.rho(p)
EosCallRho(p) ==
    /\ variant = "eos"
    /\ eos.pc = "constructed"
    /\ eos' = [eos EXCEPT !.pc = "evaluated", !.op = "rho", !.arg = p,
                          !.result = EosRho(eos.object, p)]
    /\ UNCHANGED <<tov_vars, k2_vars, app, threads>>

\* eos.p(rho)
EosCallP(rho) ==
    /\ variant = "eos"
    /\ eos.pc = "constructed"
    /\ eos' = [eos EXCEPT !.pc = "evaluated", !.op = "p", !.arg = rho,
                          !.result = EosP(eos.object, rho)]
    /\ UNCHANGED <<tov_vars, k2_vars, app, threads>>

\* Star.__init__ with the rho of an EOS object
StarInitWith(e, p_center, p_surf) ==
    [ p_0         |-> p_center,
      m_0         |-> 0,
      rho_0       |-> EosRho(e, p_center),
      p_surface   |-> p_surf,
      star_radius |-> 0,
      star_mass   |-> 0 ]

\* Star(eos.rho, p_center, p_surface)
EosStarConstruct(p_center) ==
    /\ variant = "eos"
    /\ eos.pc = "constructed"
    /\ eos' = [eos EXCEPT !.pc = "star", !.op = "Star", !.arg = p_center,
                          !.star = StarInitWith(eos.object, p_center, 0)]
    /\ UNCHANGED <<tov_vars, k2_vars, app, threads>>

\* star.solve_tov(): solve_ivp is called from the center values of the star
EosStarSolve ==
    /\ variant = "eos"
    /\ eos.pc = "star"
    /\ eos' = [eos EXCEPT !.pc = "integrating", !.op = "solve_tov"]
    /\ UNCHANGED <<tov_vars, k2_vars, app, threads>>

NextEos ==
    \/ EosConstruct
    \/ \E p \in Queries : EosCallRho(p)
    \/ \E rho \in Queries : EosCallP(rho)
    \/ \E p_center \in Queries : EosStarConstruct(p_center)
    \/ EosStarSolve

SpecEos == InitEos /\ [][NextEos]_vars

\* an attribute that the object does not have is read
AttributeError(name) == [type |-> "AttributeError", message |-> name]

\* StarFamily.plot_radius_mass_curve: it reads radius_array, mass_array and
\* star_object.SOLAR_MASS; a family not swept yet has no radius_array, and a
\* Star has no SOLAR_MASS
PlotRadiusMassCurve(show_plot) ==
    /\ pc = "idle"
    /\ variant = "tov"
    /\ call' = Raised("plot_radius_mass_curve",
                      AttributeError(IF sweeps = 0 THEN "radius_array" ELSE "SOLAR_MASS"))
    /\ UNCHANGED <<variant, bar, pc, p_center_space, p_surface, star, ode, r_end, k,
                   radius_array, mass_array, solved, sweeps, k2_vars>>
    /\ UNCHANGED ext_vars

----------------------------------------------------------------------------
\* app_quark_eos_analysis: analyze_strange_star_family, one call of it

\* what a search of the family raises when a solve of one of its stars fails
SearchError == [type |-> "RuntimeError", message |-> "The solver did not find the ODE termination event"]

\* the three searches, in the order of their calls
Searches == <<"find_maximum_mass_star", "find_canonical_star", "find_maximum_k2_star">>

\* a DeformedStarFamily as analyze_strange_star_family uses it, just constructed
NewFamily(quark_eos) ==
    [eos                        |-> quark_eos,
     maximum_stable_rho_center  |-> MAX_RHO,
     canonical_rho_center       |-> MAX_RHO,
     maximum_k2_star_rho_center |-> MAX_RHO,
     k2_search_limit            |-> 0]

InitFamilyAnalysis ==
    /\ variant = "family_analysis"
    /\ pc = "unused"
    /\ p_center_space = << >>
    /\ p_surface = 0
    /\ star = StarInit(0, 0)
    /\ ode = NoSolution
    /\ r_end = Inf
    /\ k = 0
    /\ radius_array = << >>
    /\ mass_array = << >>
    /\ call = NoCall
    /\ solved = << >>
    /\ sweeps = 0
    /\ bar = 0
    /\ rho_center_space = << >>
    /\ k2_array = << >>
    /\ maximum_k2_star_rho_center = 0
    /\ maximum_k2 = 0
    /\ threads = Unused
    /\ eos = Unused
    /\ \E i \in 1..MaxRows :
        app = [pc |-> "called", row |-> ParameterDataframe(MaxRows)[i], family |-> Unused,
               called |-> << >>, exception |-> NoException, result |-> << >>]

\* analyze_strange_star_family up to the family object: the EOS is built from
\* the row and checked, the family is constructed on it
FamilyAnalysisBegin ==
    /\ variant = "family_analysis"
    /\ app.pc = "called"
    /\ app' = [app EXCEPT
                  !.pc = "family",
                  !.family = NewFamily(QuarkEOSInit(app.row.a2_1_2 * app.row.a2_1_2, app.row.a4,
                                 app.row.B_1_4 * app.row.B_1_4 * app.row.B_1_4 * app.row.B_1_4))]
    /\ UNCHANGED <<tov_vars, k2_vars, threads, eos>>

\* how a search called at position n of the function ends: with the
\* rho_center it has found stored on the family, or with the exception of a
\* solve, which leaves the function
SearchEnds(n, raises, family) ==
    IF raises
    THEN [app EXCEPT !.pc = "raised", !.called = Append(@, Searches[n]), !.exception = SearchError]
    ELSE [app EXCEPT !.pc = IF n = Len(Searches) THEN "searched" ELSE "family",
                     !.called = Append(@, Searches[n]), !.family = family]

\* star_family_object.find_maximum_mass_star()
FindMaximumMassStar(raises, rho) ==
    /\ variant = "family_analysis"
    /\ app.pc = "family" /\ Len(app.called) = 0
    /\ app' = SearchEnds(1, raises, [app.family EXCEPT !.maximum_stable_rho_center = rho])
    /\ UNCHANGED <<tov_vars, k2_vars, threads, eos>>

\* star_family_object.find_canonical_star()
FindCanonicalStar(raises, rho) ==
    /\ variant = "family_analysis"
    /\ app.pc = "family" /\ Len(app.called) = 1
    /\ app' = SearchEnds(2, raises, [app.family EXCEPT !.canonical_rho_center = rho])
    /\ UNCHANGED <<tov_vars, k2_vars, threads, eos>>

\* the third argument of the _find_star call of find_maximum_k2_star
K2SearchLimit_MaxRho(family) == MAX_RHO

K2SearchLimit(family) == family.maximum_stable_rho_center

\* star_family_object.find_maximum_k2_star()
FindMaximumK2Star(raises, rho) ==
    /\ variant = "family_analysis"
    /\ app.pc = "family" /\ Len(app.called) = 2
    /\ app' = SearchEnds(3, raises, [app.family EXCEPT !.maximum_k2_star_rho_center = rho,
                                                       !.k2_search_limit = K2SearchLimit(app.family)])
    /\ UNCHANGED <<tov_vars, k2_vars, threads, eos>>

\* return (index, ...)
FamilyAnalysisReturn ==
    /\ variant = "family_analysis"
    /\ app.pc = "searched"
    /\ app' = [app EXCEPT !.pc = "returned",
                          !.result = <<app.row.index, app.family.maximum_stable_rho_center,
                                       app.family.canonical_rho_center,
                                       app.family.maximum_k2_star_rho_center>>]
    /\ UNCHANGED <<tov_vars, k2_vars, threads, eos>>

NextFamilyAnalysis ==
    \/ FamilyAnalysisBegin
    \/ \E raises \in BOOLEAN, rho \in 1..MaxRhoCenter : FindMaximumMassStar(raises, rho)
    \/ \E raises \in BOOLEAN, rho \in 1..MaxRhoCenter : FindCanonicalStar(raises, rho)
    \/ \E raises \in BOOLEAN, rho \in 1..MaxRhoCenter : FindMaximumK2Star(raises, rho)
    \/ FamilyAnalysisReturn

SpecFamilyAnalysis == InitFamilyAnalysis /\ [][NextFamilyAnalysis]_vars

NextTov ==
    \/ StarFamilyInit
    \/ \E show_plot \in BOOLEAN : PlotRadiusMassCurve(show_plot)
    \/ \E rend \in REnds : SolveTovBegin(rend)
    \/ SolveTovLoop
    \/ OdeStep
    \/ SolveTovEnd

SpecTov == InitTov /\ [][NextTov]_vars

\* A call that has started runs on: the integrator takes its next step and
\* the loop goes on to its next statement.  Nothing makes a caller call.
FairSpecTov == SpecTov /\ WF_vars(OdeStep) /\ WF_vars(SolveTovEnd) /\ WF_vars(SolveTovLoop)

NextTidal ==
    \/ DeformedStarFamilyInit
    \/ SolveCombinedBegin
    \/ \E k2v \in 0..MaxK2 : SolveCombinedStar(k2v)
    \/ \E show_results \in BOOLEAN : SolveCombinedReturn(show_results)
    \/ PrintResults
    \/ CalcMaximumK2StarCall

SpecTidal == InitTidal /\ [][NextTidal]_vars

Init == InitTov \/ InitTidal \/ InitAnalysis \/ InitThreads \/ InitEos \/ InitFamilyAnalysis

Next == NextTov \/ NextTidal \/ NextAnalysis \/ NextThreads \/ NextEos \/ NextFamilyAnalysis

Spec == Init /\ [][Next]_vars

----------------------------------------------------------------------------
\* Properties

SweepOps == {"solve_tov", "solve_combined_tov_tidal"}

\* a single star built for central pressure p and solved on its own
IndependentStar(p) ==
    LET s == StarInit(p, p_surface)
        o == SolveIvp(SolveIvpStart(s.p_0, s.m_0), s.p_surface, r_end)
    IN  SolveTovStore(s, o)

\* C1: when solve_tov has ended on the terminal event (status 1), star_radius
\* and star_mass are the time and the enclosed mass of the localized event,
\* not those of the last integration step.
C1_EventLocalizedRadiusMass ==
    (call.op \in SweepOps /\ ode.done /\ ode.status = 1 /\ pc # "ivp_done")
        => /\ star.star_radius = ode.t_event
           /\ star.star_mass = ode.m_event

\* a star has surfaced inside a step: the event lies before the step's end
C1_Witness ==
    /\ variant = "tov" /\ call.op = "solve_tov"
    /\ ode.done /\ ode.status = 1 /\ pc # "ivp_done"
    /\ ode.t_event < ode.r /\ ode.m_event < ode.m
    /\ star.star_radius = ode.t_event

C4_FailureAbortsSweep ==
    (call.op \in SweepOps /\ ode.done /\ ode.status # 1 /\ pc # "ivp_done")
        => /\ pc = "idle"
           /\ call.outcome = "raised"
           /\ call.exception.type # "none"
           /\ k <= Size
           /\ solved = SubSeq(p_center_space, 1, k)

\* the first star of a sweep has failed and a second one is left unsolved
C4_Witness ==
    /\ call.op = "solve_tov" /\ call.outcome = "raised"
    /\ ode.done /\ ode.status # 1
    /\ k = 1 /\ Size = 2 /\ Len(solved) = 1

\* C5 (as stated): a family of zero entries or of one entry is constructed
\* without error, and its sweep completes with arrays of that length.
C5_DegenerateFamilyValid ==
    (variant = "tov" /\ Size <= 1)
        => /\ pc # "crashed"
           /\ call.outcome # "raised"
           /\ (pc = "idle" /\ call.op = "solve_tov") => Len(radius_array) = Size

\* C6: when solve_ivp has ended with status -1, what solve_tov raises to its
\* caller carries the message of the integrator.
C6_FailureCarriesMessage ==
    (variant = "tov" /\ call.op = "solve_tov" /\ ode.done /\ ode.status = -1 /\ pc # "ivp_done")
        => /\ call.outcome = "raised"
           /\ call.exception.type # "none"
           /\ call.exception.message = ode.message

\* the integrator has failed and the caller holds its message
C6_Witness ==
    /\ variant = "tov" /\ call.op = "solve_tov" /\ call.outcome = "raised"
    /\ ode.done /\ ode.status = -1
    /\ call.exception.message = StepFailureMessage

\* the kind of what solve_tov raises on an integration failure
IntegrationFailureKind == SolveTovRaises([status |-> -1, message |-> StepFailureMessage]).type

\* C7 (as stated): when solve_ivp has ended with status 0, what solve_tov raises
\* is of another kind than what it raises on an integration failure.
C7_EventNotFoundDistinctKind ==
    (variant = "tov" /\ call.op = "solve_tov" /\ call.outcome = "raised"
        /\ ode.done /\ ode.status = 0)
        => call.exception.type # IntegrationFailureKind

\* C8 (as stated, its second half): with the default r_end, a run whose pressure
\* never reaches p_surface ends with status 0, event-not-found.
C8_DefaultRunEndsEventNotFound ==
    (variant = "tov" /\ ode.done /\ r_end = Inf /\ ode.status # 1) => ode.status = 0

\* C8 (amended): every integration that solve_tov starts ends, and solve_tov
\* with it, with status 1, -1 or 0; status 0 is the end of a run that has
\* reached a finite r_end, so that with the default r_end = inf a run whose
\* pressure never reaches p_surface ends with the integrator's failure instead.
C8_SolveTovEnds ==
    /\ (pc = "integrating") ~> (pc \in {"loop", "idle"})
    /\ [](ode.done => ode.status \in {-1, 0, 1})
    /\ []((ode.done /\ ode.status = 0) => (r_end # Inf /\ ode.r = r_end))

\* with the default r_end the pressure has never reached p_surface, and the
\* call has ended with the integrator's failure
C8_Witness ==
    /\ variant = "tov" /\ pc = "idle" /\ call.op = "solve_tov" /\ call.outcome = "raised"
    /\ r_end = Inf /\ ode.done /\ ode.status = -1
    /\ \A i \in 1..Len(ode.t) : ode.t[i][2] < star.p_surface

\* the calls that run _calc_maximum_k2_star
CalcOps == {"_calc_maximum_k2_star", "print_results"}

\* a maximum-k2 calculation has just ended on a family of at least two stars
CalcDone == variant = "tidal" /\ pc = "idle" /\ call.op \in CalcOps /\ Size >= 2

\* the rho_center at which the interpolated k2 turns or is level
TurningPoints ==
    {rho_center_space[i] : i \in {n \in 1..(Size - 1) : IsRoot(k2_array, n)}}

\* C9 (as stated): when the derivative of the k2 interpolant has no root in the
\* sampled range, the maximum-k2 calculation signals not-found to its caller
\* and reports no maximum.
C9_NoRootSignalsNotFound ==
    (CalcDone /\ TurningPoints = {})
        => /\ call.outcome = "raised"
           /\ call.exception.type \notin {"none", "RuntimeError"}

\* C10: when the derivative of the k2 interpolant has roots,
\* _calc_maximum_k2_star ends with maximum_k2_star_rho_center at the smallest
\* of them and maximum_k2 at the interpolant's value there, and it returns
\* that rho_center; a larger k2 at a later root changes nothing.
C10_FirstRootSelected ==
    (CalcDone /\ TurningPoints # {})
        => /\ call.outcome = "returned"
           /\ \A x \in TurningPoints : maximum_k2_star_rho_center <= x
           /\ maximum_k2_star_rho_center \in TurningPoints
           /\ maximum_k2 = SplineAt(rho_center_space, k2_array, maximum_k2_star_rho_center)
           /\ call.op = "_calc_maximum_k2_star" => call.value = maximum_k2_star_rho_center

\* two roots, the later one with the larger k2: the first one is reported
C10_Witness ==
    /\ CalcDone /\ call.op = "_calc_maximum_k2_star" /\ call.outcome = "returned"
    /\ Cardinality(TurningPoints) >= 2
    /\ \E x \in TurningPoints :
            /\ x > maximum_k2_star_rho_center
            /\ SplineAt(rho_center_space, k2_array, x) > maximum_k2

\* C11 (as stated): whenever _calc_maximum_k2_star reports a maximum, the
\* reported maximum_k2 is at least every sampled k2 of k2_array.
C11_ReportedMaximumBoundsSamples ==
    (CalcDone /\ TurningPoints # {} /\ call.outcome = "returned")
        => \A i \in 1..Size : maximum_k2 >= k2_array[i]

\* C12: when analyze_strange_stars has updated the dataframe, every row holds
\* the properties calculated from the parameters of that row, whatever the
\* order in which the worker processes finished, their number and the chunk
\* size.
C12_RowsReceiveOwnResults ==
    (variant = "analysis" /\ app.pc = "done")
        => \A i \in 1..Len(app.dataframe) :
                app.dataframe[i].props
                    = FamilyProperties(QuarkEOSInit(
                        app.dataframe[i].a2_1_2 * app.dataframe[i].a2_1_2,
                        app.dataframe[i].a4,
                        app.dataframe[i].B_1_4 * app.dataframe[i].B_1_4
                            * app.dataframe[i].B_1_4 * app.dataframe[i].B_1_4))

\* two processes and chunks of two rows: a later chunk was finished before an
\* earlier one, and the table is complete
C12_Witness ==
    /\ variant = "analysis" /\ app.pc = "done"
    /\ app.processes = 2 /\ app.chunksize = 2
    /\ app.overtaken
    /\ \A i \in 1..Len(app.dataframe) : app.dataframe[i].props # << >>

\* C13 (as stated): the result a caller gets for its star is that of the
\* star solved on its own, whatever other solve runs at the same time through
\* the same family object.
C13_ConcurrentSolvesIndependent ==
    variant = "threads"
        => \A t \in Callers :
            threads[t].pc = "done"
                => /\ threads[t].radius = IndependentStar(p_center_space[t]).star_radius
                   /\ threads[t].mass = IndependentStar(p_center_space[t]).star_mass

\* C14: every integration of Star.solve_tov starts at r_begin with the
\* pressure p_0 of the star and enclosed mass 0, also on a star object that
\* has been solved before.
C14_IntegrationStartsAtCenter ==
    (variant = "tov" /\ pc \in {"integrating", "ivp_done"})
        => /\ ode.t[1] = <<RBegin, star.p_0, 0>>
           /\ Len(ode.t) = 1 => (ode.r = RBegin /\ ode.p = star.p_0 /\ ode.m = 0)

\* the second integration on a star object that holds the mass of its first solve
C14_Witness ==
    /\ variant = "tov" /\ pc = "integrating" /\ k = 2
    /\ Len(ode.t) = 1
    /\ star.star_mass > 0 /\ star.star_radius > 0

\* an EOS object of the kind has returned from rho or p
Evaluated(kind) == variant = "eos" /\ eos.pc = "evaluated" /\ eos.object.kind = kind

\* C15: for the polytropic and the quark EOS, rho and p are inverses on the
\* valid domain, to within one unit of the value in between: p0 >= 0 lies
\* between the pressures of rho(p0) and of the next density, and a density
\* rho0 of pressure >= 0 lies between the densities of p(rho0) and of the next
\* pressure.
C15_RhoAndPInverse ==
    (Evaluated("polytropic") \/ Evaluated("quark"))
        => /\ (eos.op = "rho" /\ eos.arg >= 0)
                => /\ ~eos.result.nan
                   /\ ~EosP(eos.object, eos.result.value).nan
                   /\ EosP(eos.object, eos.result.value).value <= eos.arg
                   /\ eos.arg <= EosP(eos.object, eos.result.value + 1).value
           /\ (eos.op = "p" /\ eos.arg >= 0 /\ ~eos.result.nan /\ eos.result.value >= 0)
                => /\ ~EosRho(eos.object, eos.result.value).nan
                   /\ EosRho(eos.object, eos.result.value).value <= eos.arg
                   /\ eos.arg <= EosRho(eos.object, eos.result.value + 1).value

\* the density of a positive pressure of a quark EOS with a bag constant, whose
\* pressure is that pressure again
C15_Witness ==
    /\ Evaluated("quark") /\ eos.op = "rho" /\ eos.arg > 0 /\ eos.object.B > 0
    /\ ~eos.result.nan
    /\ QuarkP(eos.object, eos.result.value) = Real(eos.arg)

\* C16: TableEOS.rho at a pressure outside the pressures of the table, and
\* TableEOS.p at a density outside its densities, return not-a-number.
C16_TableOutOfRangeIsNaN ==
    Evaluated("table")
        => /\ (eos.op = "rho" /\ (\A i \in 1..Len(eos.object.p_column) : eos.arg < eos.object.p_column[i]))
                => eos.result.nan
           /\ (eos.op = "rho" /\ (\A i \in 1..Len(eos.object.p_column) : eos.arg > eos.object.p_column[i]))
                => eos.result.nan
           /\ (eos.op = "p" /\ (\A i \in 1..Len(eos.object.rho_column) : eos.arg < eos.object.rho_column[i]))
                => eos.result.nan
           /\ (eos.op = "p" /\ (\A i \in 1..Len(eos.object.rho_column) : eos.arg > eos.object.rho_column[i]))
                => eos.result.nan

\* rho was asked above the largest pressure of a table and is not a number
C16_Witness ==
    /\ Evaluated("table") /\ eos.op = "rho"
    /\ eos.arg > eos.object.p_center
    /\ eos.result.nan

\* C17 (as stated): QuarkEOS.rho and QuarkEOS.p never return a value that is
\* not a number: a negative radicand is signalled to the caller.
C17_NegativeRadicandSignalled ==
    Evaluated("quark") => ~eos.result.nan

\* C18 (as stated): no Star exists, and none is solved, whose central density
\* is undefined because its central pressure is outside the table of its EOS.
C18_OutOfTableCenterSurfaced ==
    (variant = "eos" /\ eos.pc \in {"star", "integrating"} /\ eos.object.kind = "table")
        => ~eos.star.rho_0.nan

\* C19: a table whose density column or pressure column is not strictly
\* increasing gives no TableEOS object: the constructor raises.
C19_NonMonotonicTableRejected ==
    (variant = "eos" /\ eos.arguments.kind = "table" /\ eos.pc # "new"
        /\ \E i \in 1..(Len(eos.arguments.table) - 1) :
              \/ eos.arguments.table[i][1] >= eos.arguments.table[i + 1][1]
              \/ eos.arguments.table[i][2] >= eos.arguments.table[i + 1][2])
        => /\ eos.pc = "raised"
           /\ eos.exception.type = "ValueError"
           /\ eos.object = Unused

\* the densities of a table increase and its pressures fall: the constructor
\* has raised
C19_Witness ==
    /\ variant = "eos" /\ eos.arguments.kind = "table" /\ eos.pc = "raised"
    /\ Len(eos.arguments.table) = 2
    /\ eos.arguments.table[1][1] < eos.arguments.table[2][1]
    /\ eos.arguments.table[1][2] > eos.arguments.table[2][2]

\* C20: on every TableEOS object, p_surface and rho_surface are the smallest
\* pressure and density of the table, p_center and rho_center the largest.
C20_TableExtremesExposed ==
    (variant = "eos" /\ eos.arguments.kind = "table" /\ eos.pc \notin {"new", "raised"})
        => \A i \in 1..Len(eos.arguments.table) :
              /\ eos.object.rho_surface <= eos.arguments.table[i][1]
              /\ eos.object.p_surface <= eos.arguments.table[i][2]
              /\ eos.object.rho_center >= eos.arguments.table[i][1]
              /\ eos.object.p_center >= eos.arguments.table[i][2]

\* a TableEOS object whose center values are above its surface values
C20_Witness ==
    /\ variant = "eos" /\ eos.arguments.kind = "table" /\ eos.pc = "constructed"
    /\ eos.object.p_center > eos.object.p_surface
    /\ eos.object.rho_center > eos.object.rho_surface

\* C21 (as stated): what a sweep raises when the solve of a star has failed
\* names the star that failed, by its p_center or its rho_center, next to the
\* reason.
C21_FailureIdentifiesStar ==
    (variant = "tov" /\ call.op = "solve_tov" /\ call.outcome = "raised")
        => \/ /\ "p_center" \in DOMAIN call.exception
              /\ call.exception.p_center = p_center_space[k]
           \/ /\ "rho_center" \in DOMAIN call.exception
              /\ call.exception.rho_center = PolytropicRho(p_center_space[k])

\* C22: in a sweep of StarFamily.solve_tov the progress bar has advanced once
\* for every star whose radius and mass are stored and for no other: while
\* star k is called, integrated and stored the count stays at k - 1, and a
\* sweep that has returned has as many ticks as p_center_space has entries.
C22_ProgressOncePerStar ==
    (variant = "tov" /\ call.op = "solve_tov")
        => /\ bar = k - 1
           /\ \A j \in 1..bar :
                /\ radius_array[j] = IndependentStar(p_center_space[j]).star_radius
                /\ mass_array[j] = IndependentStar(p_center_space[j]).star_mass
           /\ (pc = "idle" /\ call.outcome = "returned") => bar = Size

\* a sweep of two stars, each integrated over several steps, has returned
\* with two ticks
C22_Witness ==
    /\ variant = "tov" /\ call.op = "solve_tov" /\ Size = 2
    /\ pc = "idle" /\ call.outcome = "returned" /\ bar = 2
    /\ radius_array[1] > RBegin + StepSize /\ radius_array[2] > RBegin + StepSize

\* C23: the arrays of a family are written only by its sweep: a step of any
\* other operation (the constructor, plot_radius_mass_curve) leaves
\* p_center_space, radius_array and mass_array as they are, no step writes
\* p_center_space, and the step that starts a sweep leaves both arrays at the
\* length of p_center_space with 0 in every entry, whatever an earlier sweep
\* stored.
C23_ArraysWrittenOnlyInSweep ==
    [][variant = "tov"
        => /\ p_center_space' = p_center_space
           /\ call'.op # "solve_tov"
                => /\ radius_array' = radius_array
                   /\ mass_array' = mass_array
           /\ (call.op # "solve_tov" \/ call.outcome # "running") /\ call'.op = "solve_tov"
                => /\ Len(radius_array') = Size /\ Len(mass_array') = Size
                   /\ \A j \in 1..Size : radius_array'[j] = 0 /\ mass_array'[j] = 0]_vars

\* a second sweep has started from arrays of zeros on a family whose first
\* sweep stored the radius and the mass of a star
C23_Witness ==
    /\ variant = "tov" /\ sweeps = 2 /\ pc = "loop" /\ k = 1 /\ Size >= 1
    /\ star.star_radius > 0 /\ star.star_mass > 0
    /\ \A j \in 1..Size : radius_array[j] = 0 /\ mass_array[j] = 0

\* C24 (as stated): the quark EOS that analyze_strange_star_family builds for a
\* row has the bag constant of the row as its B and the coefficients of the
\* row as its a2 and a4, so that the properties stored in the row are those
\* of the family of that EOS.
C24_QuarkParametersBoundToOwnArgument ==
    (variant = "analysis" /\ app.pc = "done")
        => \A i \in 1..Len(app.dataframe) :
                app.dataframe[i].props
                    = FamilyProperties(
                        [kind |-> "quark",
                         B    |-> app.dataframe[i].B_1_4 * app.dataframe[i].B_1_4
                                    * app.dataframe[i].B_1_4 * app.dataframe[i].B_1_4,
                         a2   |-> app.dataframe[i].a2_1_2 * app.dataframe[i].a2_1_2,
                         a4   |-> app.dataframe[i].a4])

\* C25: a solve of Star.solve_tov that ends in a failure, of the integration
\* or for want of the event, writes none of star_radius, star_mass and the
\* interpolants: only the step that ends a solve on its event changes them, so
\* that after a failure a fresh star still has its zeros and a reused one the
\* values of the star solved before.
C25_FailureLeavesStarUnchanged ==
    /\ [][(variant = "tov" /\ ~(pc = "ivp_done" /\ ode.status = 1))
            => /\ star'.star_radius = star.star_radius
               /\ star'.star_mass = star.star_mass
               /\ star'.spline = star.spline]_vars
    /\ []((variant = "tov" /\ call.op = "solve_tov" /\ call.outcome = "raised")
            => /\ (k = 1 /\ sweeps = 1)
                    => (star.star_radius = 0 /\ star.star_mass = 0 /\ star.spline = << >>)
               /\ k > 1
                    => /\ star.star_radius = radius_array[k - 1]
                       /\ star.star_mass = mass_array[k - 1]
                       /\ star.spline = IndependentStar(p_center_space[k - 1]).spline)

\* the second star of a sweep has failed after several steps, and the star
\* object holds the radius and the mass of the first
C25_Witness ==
    /\ variant = "tov" /\ call.op = "solve_tov" /\ call.outcome = "raised"
    /\ k = 2 /\ Len(ode.t) > 1
    /\ star.star_radius = radius_array[1] /\ star.star_radius > 0
    /\ star.star_mass = mass_array[1] /\ star.star_mass > 0

\* C26: after a sweep of solve_tov that was aborted at star k, radius_array and
\* mass_array have the length of p_center_space, the entries before k are the
\* radius and mass of the stars solved, and every entry from k on is 0.
C26_AbortLeavesPlaceholderZeros ==
    (variant = "tov" /\ call.op = "solve_tov" /\ call.outcome = "raised")
        => /\ Len(radius_array) = Size
           /\ Len(mass_array) = Size
           /\ k \in 1..Size
           /\ \A j \in 1..(k - 1) :
                /\ radius_array[j] = IndependentStar(p_center_space[j]).star_radius
                /\ mass_array[j] = IndependentStar(p_center_space[j]).star_mass
           /\ \A j \in k..Size : radius_array[j] = 0 /\ mass_array[j] = 0

\* a sweep of two stars was aborted at its second star: the first entry is
\* that of the first star, the second is the zero the array was created with
C26_Witness ==
    /\ variant = "tov" /\ call.op = "solve_tov" /\ call.outcome = "raised"
    /\ Size = 2 /\ k = 2
    /\ radius_array[1] > 0 /\ mass_array[1] > 0
    /\ radius_array[2] = 0 /\ mass_array[2] = 0

\* C27: a maximum-k2 calculation on an interpolant whose derivative has no root
\* leaves maximum_k2_star_rho_center and maximum_k2 as they are and returns the
\* stored rho_center.  The constructor sets them to MAX_RHO and infinity, and
\* no step but a calculation that finds a root changes them afterwards: what
\* is stored, and returned, is the default, or what the last calculation that
\* found a root has left.
C27_NoRootLeavesStoredValues ==
    [][variant = "tidal"
        => /\ (pc = "new" /\ pc' = "idle")
                => (maximum_k2_star_rho_center' = MAX_RHO /\ maximum_k2' = Inf)
           /\ (pc # "new" /\ (\/ maximum_k2_star_rho_center' # maximum_k2_star_rho_center
                              \/ maximum_k2' # maximum_k2))
                => /\ pc' = "idle"
                   /\ call'.op \in CalcOps \cup {"solve_combined_tov_tidal"}
                   /\ Size >= 2
                   /\ TurningPoints # {}
           /\ (pc = "idle" /\ call'.op = "_calc_maximum_k2_star" /\ Size >= 2 /\ TurningPoints = {})
                => /\ call'.outcome = "returned"
                   /\ call'.value = maximum_k2_star_rho_center
                   /\ maximum_k2_star_rho_center' = maximum_k2_star_rho_center
                   /\ maximum_k2' = maximum_k2]_vars

\* a calculation on a k2 that only rises has returned the rho_center that an
\* earlier calculation found, with the maximum_k2 of that one
C27_Witness ==
    /\ CalcDone /\ call.op = "_calc_maximum_k2_star" /\ call.outcome = "returned"
    /\ TurningPoints = {}
    /\ maximum_k2 # Inf /\ maximum_k2_star_rho_center # MAX_RHO
    /\ call.value = maximum_k2_star_rho_center

\* C28: in analyze_strange_star_family the searches are called in the order
\* maximum mass, canonical star, maximum k2, each after the one before it has
\* returned; the maximum-k2 search is given the maximum_stable_rho_center that
\* the maximum-mass search has stored on the family; and a search that raises
\* is the last one called: the function ends with its exception and no result.
C28_SearchesInFixedOrder ==
    variant = "family_analysis"
        => /\ app.called = SubSeq(Searches, 1, Len(app.called))
           /\ Len(app.called) = 3 /\ app.pc # "raised"
                => /\ app.family.k2_search_limit = app.family.maximum_stable_rho_center
                   /\ app.family.maximum_stable_rho_center \in 1..MaxRhoCenter
           /\ app.pc = "raised"
                => /\ Len(app.called) >= 1
                   /\ app.exception # NoException
                   /\ app.result = << >>
           /\ app.pc = "returned"
                => /\ app.called = Searches
                   /\ app.exception = NoException
                   /\ app.result[2] = app.family.maximum_stable_rho_center

\* the three searches have run and the function has returned: the maximum-k2
\* search was given the density that the maximum-mass search had found, below
\* the one the family was constructed with
C28_Witness ==
    /\ variant = "family_analysis" /\ app.pc = "returned"
    /\ app.family.k2_search_limit = app.result[2]
    /\ app.family.k2_search_limit < MAX_RHO

\* C29: PolytropicEOS.rho of a negative pressure raises nothing and returns
\* the density of the absolute value, a positive number: the pressure of that
\* density is -p, not p, to within one unit, and the right-hand side of the
\* TOV system at a negative pressure has the mass gradient of that positive
\* density.
C29_NegativePressureAsAbsolute ==
    (Evaluated("polytropic") /\ eos.op = "rho" /\ eos.arg < 0)
        => /\ eos.exception = NoException
           /\ ~eos.result.nan
           /\ eos.result = EosRho(eos.object, 0 - eos.arg)
           /\ eos.result.value > 0
           /\ EosP(eos.object, eos.result.value).value <= 0 - eos.arg
           /\ 0 - eos.arg <= EosP(eos.object, eos.result.value + 1).value
           /\ EosP(eos.object, eos.result.value).value # eos.arg
           /\ OdeSystem(RBegin, eos.arg, 0).finite
           /\ OdeSystem(RBegin, eos.arg, 0).dm_dr = FourPi * RBegin * RBegin * eos.result.value
           /\ OdeSystem(RBegin, eos.arg, 0).dm_dr > 0

\* rho of a negative pressure has returned a density whose pressure is positive
C29_Witness ==
    /\ Evaluated("polytropic") /\ eos.op = "rho" /\ eos.arg < 0
    /\ eos.result.value > 0
    /\ EosP(eos.object, eos.result.value).value > 0

====
